---- MODULE Spec2Model ----
(***************************************************************************)
(* Model of the propositional-logic tool: Parser.py (lex and the           *)
(* recursive-descent parser), AST.py (the expression tree, its rendering,  *)
(* vars, eval and truth_table) and the try block of Main.py.               *)
(*                                                                         *)
(* A text is a sequence of one-character strings.  A raised exception is   *)
(* a record that the caller propagates, as Python does.                    *)
(***************************************************************************)
EXTENDS Integers, Sequences, FiniteSets, TLC

VARIABLES text, pc, tokens, tree, rest, exc, stdout

vars_ == <<text, pc, tokens, tree, rest, exc, stdout>>

(***************************************************************************)
(* Bounds of the model.                                                    *)
(***************************************************************************)
MaxLen == 3

(***************************************************************************)
(* Parser.py: token types (class TType).                                   *)
(***************************************************************************)
TTRUE   == "T"
TFALSE  == "F"
TNOT    == "~"
TAND    == "&&"
TOR     == "||"
TARROW  == "->"
TVAR    == "<var>"
TLPAREN == "("
TRPAREN == ")"
TEOF    == "<EOF>"

Token(ttype, pos, val) == [ttype |-> ttype, pos |-> pos, val |-> val]

Lower == {"a","b","c","d","e","f","g","h","i","j","k","l","m",
          "n","o","p","q","r","s","t","u","v","w","x","y","z"}
Upper == {"A","B","C","D","E","F","G","H","I","J","K","L","M",
          "N","O","P","Q","R","S","T","U","V","W","X","Y","Z"}

alpha(c) == c \in Lower \/ c \in Upper

(***************************************************************************)
(* Exceptions.py.                                                          *)
(***************************************************************************)
NoException == [kind |-> "none"]
ParseException(line, expected, got) ==
    [kind |-> "ParseException", line |-> line, expected |-> expected, got |-> got]
LexException(line, got) == [kind |-> "LexException", line |-> line, got |-> got]
EvalException(node) == [kind |-> "EvalException", node |-> node]

Return(v) == [raised |-> FALSE, val |-> v]
Raise(e)  == [raised |-> TRUE, exc |-> e]

(***************************************************************************)
(* AST.py: the six node classes.                                           *)
(***************************************************************************)
And(l, r)   == [type |-> "AND", lhs |-> l, rhs |-> r]
Or(l, r)    == [type |-> "OR", lhs |-> l, rhs |-> r]
Arrow(l, r) == [type |-> "ARROW", lhs |-> l, rhs |-> r]
Not(l)      == [type |-> "NOT", lhs |-> l]
Lit(val)    == [type |-> "LIT", val |-> val]
Var(name)   == [type |-> "VAR", name |-> name]
true        == Lit(TRUE)
false       == Lit(FALSE)
NoTree      == [type |-> "NONE"]

(***************************************************************************)
(* Parser.py lex: the scan loop from position i (0-based) with the tokens  *)
(* produced so far.  text[i] of the source is txt[i+1] here.               *)
(***************************************************************************)
RECURSIVE alphaRun(_, _, _)
alphaRun(txt, i, j) ==
    IF i + j < Len(txt) /\ alpha(txt[i + j + 1]) THEN alphaRun(txt, i, j + 1) ELSE j

RECURSIVE lexLoop(_, _, _)
lexLoop(txt, i, toks) ==
    IF ~(i < Len(txt))
    THEN Return(Append(toks, Token(TEOF, i, <<"<","E","O","F",">">>)))
    ELSE LET c == txt[i + 1]
             n == IF i + 1 < Len(txt) THEN <<txt[i + 2]>> ELSE <<>>
             cn == <<c>> \o n
         IN  IF c \in {" ", "\r", "\n", "\t"}
             THEN lexLoop(txt, i + 1, toks)
             ELSE IF c = "T"
             THEN lexLoop(txt, i + 1, Append(toks, Token(TTRUE, i, <<"T">>)))
             ELSE IF c = "F"
             THEN lexLoop(txt, i + 1, Append(toks, Token(TFALSE, i, <<"F">>)))
             ELSE IF c = "~"
             THEN lexLoop(txt, i + 1, Append(toks, Token(TNOT, i, <<"~">>)))
             ELSE IF c = "("
             THEN lexLoop(txt, i + 1, Append(toks, Token(TLPAREN, i, <<"(">>)))
             ELSE IF c = ")"
             THEN lexLoop(txt, i + 1, Append(toks, Token(TRPAREN, i, <<")">>)))
             ELSE IF cn = <<"|","|">>
             THEN lexLoop(txt, i + 2, Append(toks, Token(TOR, i, cn)))
             ELSE IF cn = <<"&","&">>
             THEN lexLoop(txt, i + 2, Append(toks, Token(TAND, i, cn)))
             ELSE IF cn = <<"-",">">>
             THEN lexLoop(txt, i + 2, Append(toks, Token(TARROW, i, cn)))
             ELSE IF alpha(c)
             THEN LET j == alphaRun(txt, i, 0)
                  IN  lexLoop(txt, i + (j - 1) + 1,
                              Append(toks, Token(TVAR, i, SubSeq(txt, i + 1, i + j))))
             ELSE Raise(LexException(i, c))

lex(txt) == lexLoop(txt, 0, <<>>)

(***************************************************************************)
(* Parser.py: the recursive-descent parser.  Each function returns the     *)
(* expression together with the token list as its pops left it, or the     *)
(* exception it raised; tokens[0] of the source is toks[1] here.  A        *)
(* result that is an exception passes through every later statement of     *)
(* the functions above it.                                                 *)
(***************************************************************************)
Parsed(e, toks) == [raised |-> FALSE, val |-> e, tokens |-> toks]

\* if tokens[0].ttype not in follow: raise ParseException(...), else return
check_follow(r, follow) ==
    IF r.raised THEN r
    ELSE IF \A k \in 1..Len(follow) : follow[k] # r.tokens[1].ttype
    THEN Raise(ParseException(r.tokens[1].pos, follow, r.tokens[1].val))
    ELSE r

RECURSIVE expr(_), or_expr(_), or_loop(_), and_expr(_), and_loop(_),
          not_expr(_), term(_), term_atom(_)

\* term_rparen reporting the set term expects at its start instead of TRPAREN
term_rparen_first(r) ==
    IF r.raised THEN r
    ELSE IF r.tokens[1].ttype # TRPAREN
    THEN Raise(ParseException(r.tokens[1].pos, <<TTRUE, TFALSE, TVAR, TLPAREN>>,
                              r.tokens[1].val))
    ELSE r

\* term, the TLPAREN branch after e = expr(tokens): the check for TRPAREN
term_rparen(r) ==
    IF r.raised THEN r
    ELSE IF r.tokens[1].ttype # TRPAREN
    THEN Raise(ParseException(r.tokens[1].pos, <<TRPAREN>>, r.tokens[1].val))
    ELSE r

\* term_atom reporting follow instead of first in its else branch
term_atom_follow(toks) ==
    IF toks[1].ttype = TVAR THEN Parsed(Var(toks[1].val), toks)
    ELSE IF toks[1].ttype = TTRUE THEN Parsed(true, toks)
    ELSE IF toks[1].ttype = TFALSE THEN Parsed(false, toks)
    ELSE IF toks[1].ttype = TLPAREN THEN term_rparen(expr(Tail(toks)))
    ELSE Raise(ParseException(toks[1].pos, <<TEOF, TRPAREN, TARROW, TOR, TAND>>,
                              toks[1].val))

\* term, the if/elif chain on tokens[0].ttype
term_atom(toks) ==
    IF toks[1].ttype = TVAR THEN Parsed(Var(toks[1].val), toks)
    ELSE IF toks[1].ttype = TTRUE THEN Parsed(true, toks)
    ELSE IF toks[1].ttype = TFALSE THEN Parsed(false, toks)
    ELSE IF toks[1].ttype = TLPAREN THEN term_rparen(expr(Tail(toks)))
    ELSE Raise(ParseException(toks[1].pos, <<TTRUE, TFALSE, TVAR, TLPAREN>>,
                              toks[1].val))

\* term, tokens.pop(0) after the chain
term_pop(r) == IF r.raised THEN r ELSE Parsed(r.val, Tail(r.tokens))

term(toks) ==
    check_follow(term_pop(term_atom(toks)), <<TEOF, TRPAREN, TARROW, TOR, TAND>>)

not_node(ne) == IF ne.raised THEN ne ELSE Parsed(Not(ne.val), ne.tokens)

not_expr(toks) ==
    check_follow(IF toks[1].ttype = TNOT THEN not_node(not_expr(Tail(toks)))
                 ELSE term(toks),
                 <<TEOF, TRPAREN, TARROW, TOR, TAND>>)

and_node(lhs, rhs) ==
    IF rhs.raised THEN rhs ELSE Parsed(And(lhs, rhs.val), rhs.tokens)

\* and_loop as the grammar comment has it, A => N && A
and_loop_right(l) ==
    IF l.raised THEN l
    ELSE IF l.tokens[1].ttype = TAND
    THEN and_node(l.val, and_expr(Tail(l.tokens)))
    ELSE l

\* and_expr, the while loop; l is lhs with the tokens left after it
and_loop(l) ==
    IF l.raised THEN l
    ELSE IF l.tokens[1].ttype = TAND
    THEN and_loop(and_node(l.val, not_expr(Tail(l.tokens))))
    ELSE l

and_expr(toks) ==
    check_follow(and_loop(not_expr(toks)), <<TEOF, TRPAREN, TARROW, TOR>>)

or_node(lhs, rhs) ==
    IF rhs.raised THEN rhs ELSE Parsed(Or(lhs, rhs.val), rhs.tokens)

\* or_expr, the while loop; l is lhs with the tokens left after it
or_loop(l) ==
    IF l.raised THEN l
    ELSE IF l.tokens[1].ttype = TOR
    THEN or_loop(or_node(l.val, and_expr(Tail(l.tokens))))
    ELSE l

\* or_expr taking its first operand from not_expr, one level too deep
or_expr_flat(toks) ==
    check_follow(or_loop(not_expr(toks)), <<TEOF, TRPAREN, TARROW>>)

or_expr(toks) ==
    check_follow(or_loop(and_expr(toks)), <<TEOF, TRPAREN, TARROW>>)

arrow_node(lhs, rhs) ==
    IF rhs.raised THEN rhs ELSE Parsed(Arrow(lhs, rhs.val), rhs.tokens)

\* expr_arrow as a loop over or_expr operands, which nests to the left
RECURSIVE expr_arrow_left(_)
expr_arrow_left(l) ==
    IF l.raised THEN l
    ELSE IF l.tokens[1].ttype = TARROW
    THEN expr_arrow_left(arrow_node(l.val, or_expr(Tail(l.tokens))))
    ELSE l

\* expr, the if on TARROW; l is lhs with the tokens left after it
expr_arrow(l) ==
    IF l.raised THEN l
    ELSE IF l.tokens[1].ttype = TARROW
    THEN arrow_node(l.val, expr(Tail(l.tokens)))
    ELSE l

expr(toks) == check_follow(expr_arrow(or_expr(toks)), <<TEOF, TRPAREN>>)

\* parse: expr applied to what lex returned
parse_tokens(l) == IF l.raised THEN l ELSE expr(l.val)

parse(txt) == parse_tokens(lex(txt))

(***************************************************************************)
(* AST.py: __str__ of the six node classes.                                *)
(***************************************************************************)
\* str without the parentheses around the binary nodes
RECURSIVE str_bare(_)
str_bare(e) ==
    IF e.type = "AND"
    THEN str_bare(e.lhs) \o <<" ","&","&"," ">> \o str_bare(e.rhs)
    ELSE IF e.type = "OR"
    THEN str_bare(e.lhs) \o <<" ","|","|"," ">> \o str_bare(e.rhs)
    ELSE IF e.type = "ARROW"
    THEN str_bare(e.lhs) \o <<" ","-",">"," ">> \o str_bare(e.rhs)
    ELSE IF e.type = "NOT"
    THEN <<"(","~"," ">> \o str_bare(e.lhs) \o <<")">>
    ELSE IF e.type = "LIT"
    THEN (IF e.val THEN <<"T">> ELSE <<"F">>)
    ELSE e.name

RECURSIVE str(_)
str(e) ==
    IF e.type = "AND"
    THEN <<"(">> \o str(e.lhs) \o <<" ","&","&"," ">> \o str(e.rhs) \o <<")">>
    ELSE IF e.type = "OR"
    THEN <<"(">> \o str(e.lhs) \o <<" ","|","|"," ">> \o str(e.rhs) \o <<")">>
    ELSE IF e.type = "ARROW"
    THEN <<"(">> \o str(e.lhs) \o <<" ","-",">"," ">> \o str(e.rhs) \o <<")">>
    ELSE IF e.type = "NOT"
    THEN <<"(","~"," ">> \o str(e.lhs) \o <<")">>
    ELSE IF e.type = "LIT"
    THEN (IF e.val THEN <<"T">> ELSE <<"F">>)
    ELSE e.name

(***************************************************************************)
(* AST.py: vars of the six node classes.                                   *)
(***************************************************************************)
RECURSIVE vars(_)
vars(e) ==
    IF e.type \in {"AND", "OR", "ARROW"} THEN vars(e.lhs) \cup vars(e.rhs)
    ELSE IF e.type = "NOT" THEN vars(e.lhs)
    ELSE IF e.type = "LIT" THEN {}
    ELSE {e.name}

(***************************************************************************)
(* AST.py: eval of the six node classes.  Every one of them raises         *)
(* EvalException with the name of its class and returns nothing.           *)
(***************************************************************************)
eval(e, env) ==
    IF e.type = "AND" THEN Raise(EvalException("And"))
    ELSE IF e.type = "OR" THEN Raise(EvalException("Or"))
    ELSE IF e.type = "ARROW" THEN Raise(EvalException("Arrow"))
    ELSE IF e.type = "NOT" THEN Raise(EvalException("Not"))
    ELSE IF e.type = "LIT" THEN Raise(EvalException("Lit"))
    ELSE Raise(EvalException("Var"))

TorF(b) == IF b THEN "T" ELSE "F"

(***************************************************************************)
(* Python's sorted() on strings of letters: lexicographic by code point,   *)
(* upper case before lower case, a proper prefix first.                    *)
(***************************************************************************)
CodePoints == <<"A","B","C","D","E","F","G","H","I","J","K","L","M",
                "N","O","P","Q","R","S","T","U","V","W","X","Y","Z",
                "a","b","c","d","e","f","g","h","i","j","k","l","m",
                "n","o","p","q","r","s","t","u","v","w","x","y","z">>

ord(c) == CHOOSE i \in 1..Len(CodePoints) : CodePoints[i] = c

RECURSIVE StrLess(_, _)
StrLess(s, t) ==
    IF t = <<>> THEN FALSE
    ELSE IF s = <<>> THEN TRUE
    ELSE IF s[1] # t[1] THEN ord(s[1]) < ord(t[1])
    ELSE StrLess(Tail(s), Tail(t))

RECURSIVE sorted(_)
sorted(S) ==
    IF S = {} THEN <<>>
    ELSE LET m == CHOOSE x \in S : \A y \in S \ {x} : StrLess(x, y)
         IN  <<m>> \o sorted(S \ {m})

(***************************************************************************)
(* AST.py rec_eval and truth_table.  out is the sequence of lines printed  *)
(* so far; a row whose result is <<>> is the assignment part printed with  *)
(* end=" " whose result was never printed.  env is the one dictionary all  *)
(* recursive calls share.                                                  *)
(***************************************************************************)
Ran(out, env) == [raised |-> FALSE, out |-> out, env |-> env]
Threw(e, out, env) == [raised |-> TRUE, exc |-> e, out |-> out, env |-> env]

RECURSIVE rec_eval(_, _, _, _, _)
rec_eval(e, vs, i, env, out) ==
    IF i < Len(vs)
    THEN LET envT == (vs[i + 1] :> TRUE) @@ env
             rT == rec_eval(e, vs, i + 1, envT, out)
         IN  IF rT.raised THEN rT
             ELSE rec_eval(e, vs, i + 1, (vs[i + 1] :> FALSE) @@ rT.env, rT.out)
    ELSE LET cells == [k \in 1..Len(vs) |-> TorF(env[vs[k]])]
             open == Append(out, [line |-> "row", cells |-> cells, result |-> <<>>])
             r == eval(e, env)
         IN  IF r.raised THEN Threw(r.exc, open, env)
             ELSE Ran(Append(out, [line |-> "row", cells |-> cells,
                                   result |-> <<TorF(r.val)>>]), env)

truth_table(e, out) ==
    LET vs == sorted(vars(e))
        header == [line |-> "header", vs |-> vs, expr |-> str(e)]
        rule == [line |-> "rule", left |-> 2 * Len(vs), right |-> Len(str(e))]
    IN  rec_eval(e, vs, 0, <<>>, out \o <<header, rule>>)

(***************************************************************************)
(* The inputs: argv[1] is any text of at most MaxLen lexemes, or one of    *)
(* the operator patterns over the atoms.                                   *)
(***************************************************************************)
Lexemes == { <<"a">>, <<"b">>, <<"T">>, <<"F">>, <<"~">>, <<"(">>, <<")">>,
             <<"|","|">>, <<"&","&">>, <<"-",">">>, <<" ">>, <<"|">> }

RECURSIVE Concat(_)
Concat(ss) == IF ss = <<>> THEN <<>> ELSE ss[1] \o Concat(Tail(ss))

Texts == UNION { { Concat(ls) : ls \in [1..k -> Lexemes] } : k \in 0..MaxLen }

Atoms == { <<"a">>, <<"b">>, <<"T">>, <<"F">>, <<"a","T">> }
BinOps == { <<"|","|">>, <<"&","&">>, <<"-",">">> }
Spacing == { <<>>, <<" ">> }

Triple(x, o, y, p, z, sp) == x \o sp \o o \o sp \o y \o sp \o p \o sp \o z
Negated(x, o, y, sp) == <<"~">> \o x \o sp \o o \o sp \o y

SubExprs ==
    Atoms \cup { <<"~">> \o x : x \in Atoms }
    \cup { x \o sp \o o \o sp \o y : x \in Atoms, y \in Atoms, o \in BinOps, sp \in Spacing }
    \cup { <<"(">> \o x \o <<")">> : x \in Atoms }

Followers == { <<>>, <<" ">>, <<" ","b">>, <<" ","T">>, <<" ","F">>, <<"(">>, <<"~">>,
               <<"~","a">>, <<"(","a",")">>, <<")">>, <<")",")">>, <<")"," ","b">> }

Unclosed(e, f) == <<"(">> \o e \o f

Patterns ==
    { Triple(x, o, y, p, z, sp) :
          x \in Atoms, y \in Atoms, z \in Atoms, o \in BinOps, p \in BinOps,
          sp \in Spacing }
    \cup { Negated(x, o, y, sp) : x \in Atoms, y \in Atoms, o \in BinOps, sp \in Spacing }
    \cup { Unclosed(e, f) : e \in SubExprs, f \in Followers }

(***************************************************************************)
(* Main.py main: the try block and its except clause.                      *)
(***************************************************************************)
Init ==
    /\ text \in Texts \cup Patterns
    /\ pc = "parse"
    /\ tokens = <<>>
    /\ tree = NoTree
    /\ rest = <<>>
    /\ exc = NoException
    /\ stdout = <<>>

ParseDone(l, r) ==
    IF l.raised
    THEN /\ exc' = l.exc
         /\ pc' = "except"
         /\ UNCHANGED <<tokens, tree, rest>>
    ELSE /\ tokens' = l.val
         /\ IF r.raised
            THEN /\ exc' = r.exc
                 /\ pc' = "except"
                 /\ UNCHANGED <<tree, rest>>
            ELSE /\ tree' = r.val
                 /\ rest' = r.tokens
                 /\ pc' = "print"
                 /\ UNCHANGED exc

Parse ==
    /\ pc = "parse"
    /\ ParseDone(lex(text), parse(text))
    /\ UNCHANGED <<text, stdout>>

PrintExpr ==
    /\ pc = "print"
    /\ stdout' = Append(stdout, [line |-> "expr", expr |-> str(tree)])
    /\ pc' = "truth_table"
    /\ UNCHANGED <<text, tokens, tree, rest, exc>>

TruthTable ==
    /\ pc = "truth_table"
    /\ LET r == truth_table(tree, stdout)
       IN  /\ stdout' = r.out
           /\ IF r.raised
              THEN exc' = r.exc /\ pc' = "except"
              ELSE pc' = "exit" /\ UNCHANGED exc
    /\ UNCHANGED <<text, tokens, tree, rest>>

Except ==
    /\ pc = "except"
    /\ stdout' = Append(stdout, [line |-> "error", exc |-> exc])
    /\ pc' = "exit"
    /\ UNCHANGED <<text, tokens, tree, rest, exc>>

Next == Parse \/ PrintExpr \/ TruthTable \/ Except

Spec == Init /\ [][Next]_vars_

(***************************************************************************)
(* Vocabulary of the properties.                                           *)
(***************************************************************************)
OR_ == <<"|","|">>
AND_ == <<"&","&">>
ARROW_ == <<"-",">">>

\* the node an atom's text denotes
AtomNode(x) == IF x = <<"T">> THEN true ELSE IF x = <<"F">> THEN false ELSE Var(x)

\* parse(argv[1]) has returned or raised
ParseReturned == pc # "parse"

\* lex(argv[1]) returned a token list
Lexed == ParseReturned /\ tokens # <<>>

AtomStart == {TVAR, TTRUE, TFALSE, TLPAREN}
Binary == {TAND, TOR, TARROW}

(***************************************************************************)
(* Where the descent stops on a token list, read off the grammar: the      *)
(* parser wants an atom at the start, after '~', after '(' and after a     *)
(* binary operator, and wants an operator or ')' after an atom or ')'.     *)
(* depth counts the '(' still open.  The result is the kind of stop and    *)
(* the index of the token it stops at.                                     *)
(***************************************************************************)
RECURSIVE Descent(_, _, _, _)
Descent(toks, k, wantAtom, depth) ==
    LET ty == toks[k].ttype
    IN  IF wantAtom
        THEN IF ty \in {TVAR, TTRUE, TFALSE} THEN Descent(toks, k + 1, FALSE, depth)
             ELSE IF ty = TLPAREN THEN Descent(toks, k + 1, TRUE, depth + 1)
             ELSE IF ty = TNOT THEN Descent(toks, k + 1, TRUE, depth)
             ELSE [stop |-> "atom", at |-> k]
        ELSE IF ty \in Binary THEN Descent(toks, k + 1, TRUE, depth)
             ELSE IF ty = TRPAREN /\ depth > 0 THEN Descent(toks, k + 1, FALSE, depth - 1)
             ELSE IF ty = TRPAREN THEN [stop |-> "return", at |-> k]
             ELSE IF ty = TEOF /\ depth = 0 THEN [stop |-> "return", at |-> k]
             ELSE IF depth > 0 THEN [stop |-> "unclosed", at |-> k]
             ELSE [stop |-> "junk", at |-> k]

Stop == Descent(tokens, 1, TRUE, 0)

Range(f) == { f[k] : k \in DOMAIN f }

(***************************************************************************)
(* C1: '~' binds tighter than '&&', '&&' tighter than '||', '||' tighter   *)
(* than '->': for all atoms x, y, z the parse of "x || y && z" is          *)
(* Or(x, And(y, z)), of "x && y || z" is Or(And(x, y), z), of "~x && y"    *)
(* is And(Not(x), y), of "x -> y || z" is Arrow(x, Or(y, z)) and of        *)
(* "x || y -> z" is Arrow(Or(x, y), z).                                    *)
(***************************************************************************)
C1_Precedence ==
    (ParseReturned /\ text \in Patterns) =>
        \A sp \in Spacing : \A x \in Atoms, y \in Atoms :
            /\ text = Negated(x, AND_, y, sp)
                   => tree = And(Not(AtomNode(x)), AtomNode(y))
            /\ \A z \in Atoms :
                /\ text = Triple(x, OR_, y, AND_, z, sp)
                       => tree = Or(AtomNode(x), And(AtomNode(y), AtomNode(z)))
                /\ text = Triple(x, AND_, y, OR_, z, sp)
                       => tree = Or(And(AtomNode(x), AtomNode(y)), AtomNode(z))
                /\ text = Triple(x, ARROW_, y, OR_, z, sp)
                       => tree = Arrow(AtomNode(x), Or(AtomNode(y), AtomNode(z)))
                /\ text = Triple(x, OR_, y, ARROW_, z, sp)
                       => tree = Arrow(Or(AtomNode(x), AtomNode(y)), AtomNode(z))

C1_Witness ==
    /\ pc = "print"
    /\ text = <<"a","&","&","b","|","|","T">>
    /\ tree = Or(And(Var(<<"a">>), Var(<<"b">>)), true)

(***************************************************************************)
(* C2: implication is right-associative: for all atoms x, y, z the parse   *)
(* of "x -> y -> z" succeeds and is Arrow(x, Arrow(y, z)), not             *)
(* Arrow(Arrow(x, y), z).                                                  *)
(***************************************************************************)
C2_ArrowRightAssoc ==
    (ParseReturned /\ text \in Patterns) =>
        \A sp \in Spacing : \A x \in Atoms, y \in Atoms, z \in Atoms :
            text = Triple(x, ARROW_, y, ARROW_, z, sp)
                => /\ tree # NoTree
                   /\ tree = Arrow(AtomNode(x), Arrow(AtomNode(y), AtomNode(z)))
                   /\ tree # Arrow(Arrow(AtomNode(x), AtomNode(y)), AtomNode(z))

C2_Witness ==
    /\ pc = "print"
    /\ text = <<"a"," ","-",">"," ","b"," ","-",">"," ","F">>
    /\ tree = Arrow(Var(<<"a">>), Arrow(Var(<<"b">>), false))

(***************************************************************************)
(* C3: eval follows the standard propositional semantics: for the parsed   *)
(* expression and every env that binds all of its variables, eval raises   *)
(* nothing and returns the truth value of the expression under env.        *)
(***************************************************************************)
RECURSIVE Truth(_, _)
Truth(e, env) ==
    IF e.type = "AND" THEN Truth(e.lhs, env) /\ Truth(e.rhs, env)
    ELSE IF e.type = "OR" THEN Truth(e.lhs, env) \/ Truth(e.rhs, env)
    ELSE IF e.type = "ARROW" THEN ~Truth(e.lhs, env) \/ Truth(e.rhs, env)
    ELSE IF e.type = "NOT" THEN ~Truth(e.lhs, env)
    ELSE IF e.type = "LIT" THEN e.val
    ELSE env[e.name]

C3_EvalSemantics ==
    tree # NoTree =>
        \A env \in [vars(tree) -> BOOLEAN] :
            /\ ~eval(tree, env).raised
            /\ eval(tree, env).val = Truth(tree, env)

(***************************************************************************)
(* C4: truth_table of an expression with k free variables emits exactly    *)
(* 2^k rows, one per assignment of the sorted variable names, True before  *)
(* False for each variable, the first variable varying slowest.            *)
(***************************************************************************)
Rows == SelectSeq(stdout, LAMBDA r : r.line = "row")

ExpectedCells(k, n) ==
    [j \in 1..k |-> IF (n \div (2 ^ (k - j))) % 2 = 0 THEN "T" ELSE "F"]

C4_TruthTableRows ==
    (pc = "exit" /\ tree # NoTree) =>
        LET k == Cardinality(vars(tree))
        IN  /\ Len(Rows) = 2 ^ k
            /\ \A n \in 1..Len(Rows) :
                   /\ Rows[n].cells = ExpectedCells(k, n - 1)
                   /\ Rows[n].result # <<>>

(***************************************************************************)
(* C5: the rendering of a parsed expression parses again, to the same      *)
(* expression; the rendering of "a&&b" is "(a && b)".                      *)
(***************************************************************************)
C5_RenderRoundTrip ==
    /\ tree # NoTree =>
           /\ ~parse(str(tree)).raised
           /\ parse(str(tree)).val = tree
           /\ str(parse(str(tree)).val) = str(tree)
    /\ (pc = "truth_table" /\ text = <<"a","&","&","b">>)
           => stdout[1].expr = <<"(","a"," ","&","&"," ","b",")">>

C5_Witness ==
    /\ pc = "truth_table"
    /\ text = <<"~","a","&","&","b">>
    /\ stdout[1].expr = <<"(","(","~"," ","a",")"," ","&","&"," ","b",")">>
    /\ parse(stdout[1].expr).val = tree

(***************************************************************************)
(* C6: a text that is a run of two or more letters beginning with 'T' or   *)
(* 'F' lexes as one VARIABLE token holding the whole run, then EOF.        *)
(***************************************************************************)
C6_LetterRunIsVariable ==
    (Lexed /\ Len(text) >= 2 /\ text[1] \in {"T", "F"}
           /\ \A k \in 1..Len(text) : alpha(text[k]))
        => tokens = << Token(TVAR, 0, text),
                       Token(TEOF, Len(text), <<"<","E","O","F",">">>) >>

(***************************************************************************)
(* C7: when the descent wants an atom and the token there is not           *)
(* VARIABLE, T, F or '(', parse raises ParseException at that token's      *)
(* offset (the text length when it is EOF), expecting exactly T, F,        *)
(* VARIABLE and '(', and returns no expression.                            *)
(***************************************************************************)
C7_AtomExpected ==
    (Lexed /\ Stop.stop = "atom") =>
        /\ exc.kind = "ParseException"
        /\ exc.line = tokens[Stop.at].pos
        /\ tokens[Stop.at].ttype = TEOF => exc.line = Len(text)
        /\ Len(exc.expected) = 4
        /\ Range(exc.expected) = AtomStart
        /\ tree = NoTree

C7_Witness ==
    /\ pc = "except"
    /\ text = <<"a"," ","&","&">>
    /\ exc = ParseException(4, <<TTRUE, TFALSE, TVAR, TLPAREN>>, <<"<","E","O","F",">">>)

(***************************************************************************)
(* C8, as claimed: whatever token other than ')' follows "( E", the error  *)
(* names only ')' as expected and carries the position of that token.      *)
(***************************************************************************)
C8_Original ==
    (Lexed /\ Stop.stop = "unclosed") =>
        /\ exc.kind = "ParseException"
        /\ exc.expected = <<TRPAREN>>
        /\ exc.line = tokens[Stop.at].pos

(***************************************************************************)
(* C8, amended: when "( E" is followed by the end of the input, parse      *)
(* raises ParseException expecting only ')' at the text length; when it    *)
(* is followed by a VARIABLE, T, F, '(' or '~', parse raises               *)
(* ParseException at that token's position expecting EOF, ')', '->',       *)
(* '||' and '&&'.  No expression is returned.                              *)
(***************************************************************************)
C8_UnclosedParen ==
    (Lexed /\ Stop.stop = "unclosed") =>
        /\ exc.kind = "ParseException"
        /\ exc.line = tokens[Stop.at].pos
        /\ tree = NoTree
        /\ IF tokens[Stop.at].ttype = TEOF
           THEN exc.expected = <<TRPAREN>> /\ exc.line = Len(text)
           ELSE /\ tokens[Stop.at].ttype \in AtomStart \cup {TNOT}
                /\ Range(exc.expected) = {TEOF, TRPAREN, TARROW, TOR, TAND}

C8_Witness ==
    /\ pc = "except"
    /\ text = <<"(","a"," ","&","&"," ","b">>
    /\ exc = ParseException(7, <<TRPAREN>>, <<"<","E","O","F",">">>)

\* the other case of the amended C8: a VARIABLE follows "( E"
C8_WitnessOther ==
    /\ pc = "except"
    /\ text = <<"(","a"," ","b">>
    /\ exc.line = 3

(***************************************************************************)
(* C9: '||' and '&&' are left-associative: for all atoms x, y, z the       *)
(* parse of "x || y || z" is Or(Or(x, y), z) and of "x && y && z" is       *)
(* And(And(x, y), z), never the right-nested trees.                        *)
(***************************************************************************)
C9_LeftAssoc ==
    (ParseReturned /\ text \in Patterns) =>
        \A sp \in Spacing : \A x \in Atoms, y \in Atoms, z \in Atoms :
            /\ text = Triple(x, OR_, y, OR_, z, sp)
                   => /\ tree = Or(Or(AtomNode(x), AtomNode(y)), AtomNode(z))
                      /\ tree # Or(AtomNode(x), Or(AtomNode(y), AtomNode(z)))
            /\ text = Triple(x, AND_, y, AND_, z, sp)
                   => /\ tree = And(And(AtomNode(x), AtomNode(y)), AtomNode(z))
                      /\ tree # And(AtomNode(x), And(AtomNode(y), AtomNode(z)))

C9_Witness ==
    /\ pc = "print"
    /\ text = <<"a","&","&","b","&","&","a","T">>
    /\ tree = And(And(Var(<<"a">>), Var(<<"b">>)), Var(<<"a","T">>))

(***************************************************************************)
(* C10: when parse returns an expression, every token of lex(text) but    *)
(* the final EOF has been consumed.                                        *)
(***************************************************************************)
C10_WholeInputConsumed ==
    tree # NoTree => (Len(rest) = 1 /\ rest[1].ttype = TEOF)

====
